---- MODULE Spec2Model ----
(***************************************************************************)
(* Model of verify_practice_debug.py: a headless-browser verification run. *)
(* One run is the script's __main__ block: launch, connect with retry,     *)
(* verify_practice_mode(page), finally browser.close(), leave the `with`.  *)
(* Every call into the browser-automation library or the operating system  *)
(* is a step whose outcome (returns / raises) is chosen by the environment;*)
(* the filesystem calls are modelled by what they do to the paths          *)
(* `verification` and `verification/practice_debug.png`.                   *)
(***************************************************************************)
EXTENDS Integers, Sequences, FiniteSets, TLC

\* range(max_retries) of the connect loop
max_retries == 30

\* number of successive executions of the script that are explored
MaxRuns == 2

VARIABLES
    pc,        \* position of the run in the script
    i,         \* loop variable of `for i in range(max_retries)`
    attempts,  \* page.goto calls made by the retry loop
    fails,     \* page.goto calls of the retry loop that raised
    waits,     \* time.sleep(1) calls made
    loads,     \* successful page.goto calls of this run (loop and step 1)
    outcome,   \* per step: "none" (not run), "ok" (returned), "fail" (raised)
    out,       \* lines printed to standard output, in order
    exc,       \* the exception in flight / propagated, NoExc when none
    browser,   \* "none" | "open" | "closed"
    closedBy,  \* "none" | "close" (browser.close()) | "driver" (with-exit)
    driver,    \* the sync_playwright() context: "running" | "stopped"
    exitCode,  \* -1 while the process runs, then 0 or 1
    fs,        \* the two output paths on disk
    fs0,       \* fs as it was when this run started
    run        \* ordinal of the current execution of the script

vars == <<pc, i, attempts, fails, waits, loads, outcome, out, exc, browser,
          closedBy, driver, exitCode, fs, fs0, run>>

Steps == {"launch", "new_context", "new_page", "connect", "navigate", "tab",
          "wait1", "click", "wait2", "makedirs", "screenshot", "report",
          "close"}

NoExc == [kind |-> "none", attempt |-> 0]

\* Kinds of the path `verification` and of `verification/practice_debug.png`;
\* writer is the run that wrote the png (0: it was there before any run).
FsStates ==
    { f \in [dir : {"absent", "dir", "file"},
             png : {"absent", "file", "dir"},
             writer : {0}] :
        f.dir # "dir" => f.png = "absent" }

\* os.makedirs("verification") without exist_ok: raises when the path exists
os_makedirs_no_exist_ok(f) ==
    IF f.dir = "absent"
    THEN [ok |-> TRUE, fs |-> [f EXCEPT !.dir = "dir"]]
    ELSE [ok |-> FALSE, fs |-> f]

\* os.makedirs("verification", exist_ok=True): creates the directory when
\* absent, returns when it is a directory, raises when it is a regular file
os_makedirs(f) ==
    CASE f.dir = "absent" -> [ok |-> TRUE, fs |-> [f EXCEPT !.dir = "dir"]]
      [] f.dir = "dir"    -> [ok |-> TRUE, fs |-> f]
      [] OTHER            -> [ok |-> FALSE, fs |-> f]

\* page.screenshot(path=...): writes (or overwrites) the png; raises when the
\* parent is not a directory or the path itself is a directory
page_screenshot(f, r) ==
    IF f.dir = "dir" /\ f.png # "dir"
    THEN [ok |-> TRUE, fs |-> [f EXCEPT !.png = "file", !.writer = r]]
    ELSE [ok |-> FALSE, fs |-> f]

Init ==
    /\ pc = "launch"
    /\ i = 0
    /\ attempts = 0
    /\ fails = 0
    /\ waits = 0
    /\ loads = 0
    /\ outcome = [s \in Steps |-> "none"]
    /\ out = <<>>
    /\ exc = NoExc
    /\ browser = "none"
    /\ closedBy = "none"
    /\ driver = "running"
    /\ exitCode = -1
    /\ fs \in FsStates
    /\ fs0 = fs
    /\ run = 1

Set(s, o) == [outcome EXCEPT ![s] = o]

\* p.chromium.launch(...): outside the try block
Launch ==
    /\ pc = "launch"
    /\ \E ok \in BOOLEAN :
         IF ok
         THEN /\ browser' = "open"
              /\ outcome' = Set("launch", "ok")
              /\ pc' = "new_context"
              /\ exc' = exc
         ELSE /\ browser' = browser
              /\ outcome' = Set("launch", "fail")
              /\ pc' = "with_exit"
              /\ exc' = [kind |-> "launch", attempt |-> 0]
    /\ UNCHANGED <<i, attempts, fails, waits, loads, out, closedBy, driver,
                   exitCode, fs, fs0, run>>

\* browser.new_context(permissions=['microphone']): outside the try block
NewContext ==
    /\ pc = "new_context"
    /\ \E ok \in BOOLEAN :
         IF ok
         THEN /\ outcome' = Set("new_context", "ok")
              /\ pc' = "new_page"
              /\ exc' = exc
         ELSE /\ outcome' = Set("new_context", "fail")
              /\ pc' = "with_exit"
              /\ exc' = [kind |-> "new_context", attempt |-> 0]
    /\ UNCHANGED <<i, attempts, fails, waits, loads, out, browser, closedBy,
                   driver, exitCode, fs, fs0, run>>

\* context.new_page(): outside the try block; the try block follows
NewPage ==
    /\ pc = "new_page"
    /\ \E ok \in BOOLEAN :
         IF ok
         THEN /\ outcome' = Set("new_page", "ok")
              /\ pc' = "connect"
              /\ exc' = exc
         ELSE /\ outcome' = Set("new_page", "fail")
              /\ pc' = "with_exit"
              /\ exc' = [kind |-> "new_page", attempt |-> 0]
    /\ UNCHANGED <<i, attempts, fails, waits, loads, out, browser, closedBy,
                   driver, exitCode, fs, fs0, run>>

\* the loop with `raise` one iteration early
ConnectAttempt_raise_early ==
    /\ pc = "connect"
    /\ attempts' = attempts + 1
    /\ \E ok \in BOOLEAN :
         IF ok
         THEN /\ loads' = loads + 1
              /\ outcome' = Set("connect", "ok")
              /\ pc' = "navigate"
              /\ UNCHANGED <<i, fails, waits, exc>>
         ELSE /\ fails' = fails + 1
              /\ loads' = loads
              /\ IF i = max_retries - 2
                 THEN /\ exc' = [kind |-> "connect", attempt |-> i + 1]
                      /\ outcome' = Set("connect", "fail")
                      /\ pc' = "finally"
                      /\ UNCHANGED <<i, waits>>
                 ELSE /\ waits' = waits + 1
                      /\ i' = i + 1
                      /\ UNCHANGED <<pc, exc, outcome>>
    /\ UNCHANGED <<out, browser, closedBy, driver, exitCode, fs, fs0, run>>

\* the loop without the `raise`: the last failure is swallowed like the others
ConnectAttempt_no_raise ==
    /\ pc = "connect"
    /\ attempts' = attempts + 1
    /\ \E ok \in BOOLEAN :
         IF ok
         THEN /\ loads' = loads + 1
              /\ outcome' = Set("connect", "ok")
              /\ pc' = "navigate"
              /\ UNCHANGED <<i, fails, waits, exc>>
         ELSE /\ fails' = fails + 1
              /\ loads' = loads
              /\ waits' = waits + 1
              /\ IF i = max_retries - 1
                 THEN /\ outcome' = Set("connect", "fail")
                      /\ pc' = "navigate"
                      /\ UNCHANGED <<i, exc>>
                 ELSE /\ i' = i + 1
                      /\ UNCHANGED <<pc, exc, outcome>>
    /\ UNCHANGED <<out, browser, closedBy, driver, exitCode, fs, fs0, run>>

\* the loop with time.sleep(1) placed before the test of the last iteration
ConnectAttempt_sleep_first ==
    /\ pc = "connect"
    /\ attempts' = attempts + 1
    /\ \E ok \in BOOLEAN :
         IF ok
         THEN /\ loads' = loads + 1
              /\ outcome' = Set("connect", "ok")
              /\ pc' = "navigate"
              /\ UNCHANGED <<i, fails, waits, exc>>
         ELSE /\ fails' = fails + 1
              /\ loads' = loads
              /\ waits' = waits + 1
              /\ IF i = max_retries - 1
                 THEN /\ exc' = [kind |-> "connect", attempt |-> i + 1]
                      /\ outcome' = Set("connect", "fail")
                      /\ pc' = "finally"
                      /\ i' = i
                 ELSE /\ i' = i + 1
                      /\ UNCHANGED <<pc, exc, outcome>>
    /\ UNCHANGED <<out, browser, closedBy, driver, exitCode, fs, fs0, run>>

\* One iteration of `for i in range(max_retries)`: page.goto, then `break`
\* on success; on failure a bare `raise` in the last iteration, otherwise
\* time.sleep(1) and the next iteration.
ConnectAttempt ==
    /\ pc = "connect"
    /\ attempts' = attempts + 1
    /\ \E ok \in BOOLEAN :
         IF ok
         THEN /\ loads' = loads + 1
              /\ outcome' = Set("connect", "ok")
              /\ pc' = "navigate"
              /\ UNCHANGED <<i, fails, waits, exc>>
         ELSE /\ fails' = fails + 1
              /\ loads' = loads
              /\ IF i = max_retries - 1
                 THEN /\ exc' = [kind |-> "connect", attempt |-> i + 1]
                      /\ outcome' = Set("connect", "fail")
                      /\ pc' = "finally"
                      /\ UNCHANGED <<i, waits>>
                 ELSE /\ waits' = waits + 1
                      /\ i' = i + 1
                      /\ UNCHANGED <<pc, exc, outcome>>
    /\ UNCHANGED <<out, browser, closedBy, driver, exitCode, fs, fs0, run>>

\* A step of verify_practice_mode with no handler around it: it returns and
\* the next step follows, or it raises and control leaves the try block.
FailFast(here, next) ==
    /\ pc = here
    /\ \E ok \in BOOLEAN :
         IF ok
         THEN /\ outcome' = Set(here, "ok")
              /\ pc' = next
              /\ exc' = exc
         ELSE /\ outcome' = Set(here, "fail")
              /\ pc' = "finally"
              /\ exc' = [kind |-> here, attempt |-> 0]

\* verify_practice_mode entered without loading the URL again
Goto_skipped ==
    /\ pc = "navigate"
    /\ outcome' = Set("navigate", "ok")
    /\ pc' = "tab"
    /\ UNCHANGED <<i, attempts, fails, waits, loads, out, exc, browser,
                   closedBy, driver, exitCode, fs, fs0, run>>

\* 1. page.goto("http://localhost:3000") inside verify_practice_mode
Goto ==
    /\ FailFast("navigate", "tab")
    /\ loads' = IF outcome'["navigate"] = "ok" THEN loads + 1 ELSE loads
    /\ UNCHANGED <<i, attempts, fails, waits, out, browser, closedBy, driver,
                   exitCode, fs, fs0, run>>

\* 2. page.get_by_role("tab", name="Practice").click()
ClickPracticeTab ==
    /\ FailFast("tab", "wait1")
    /\ UNCHANGED <<i, attempts, fails, waits, loads, out, browser, closedBy,
                   driver, exitCode, fs, fs0, run>>

\* the first wait wrapped in the same try/except as the second
ExpectOpenGString_caught ==
    /\ pc = "wait1"
    /\ \E ok \in BOOLEAN :
         /\ outcome' = Set("wait1", IF ok THEN "ok" ELSE "fail")
         /\ out' = IF ok THEN out ELSE Append(out, "error")
    /\ pc' = "click"
    /\ UNCHANGED <<i, attempts, fails, waits, loads, exc, browser, closedBy,
                   driver, exitCode, fs, fs0, run>>

\* 3. expect(page.get_by_text("Open G String")).to_be_visible(timeout=10000)
ExpectOpenGString ==
    /\ FailFast("wait1", "click")
    /\ UNCHANGED <<i, attempts, fails, waits, loads, out, browser, closedBy,
                   driver, exitCode, fs, fs0, run>>

\* 4. page.get_by_role("button", name="Start Practice").click()
ClickStartPractice ==
    /\ FailFast("click", "wait2")
    /\ UNCHANGED <<i, attempts, fails, waits, loads, out, browser, closedBy,
                   driver, exitCode, fs, fs0, run>>

\* the second wait with no try/except around it
ExpectPlayG3_propagates ==
    /\ FailFast("wait2", "makedirs")
    /\ UNCHANGED <<i, attempts, fails, waits, loads, out, browser, closedBy,
                   driver, exitCode, fs, fs0, run>>

\* the second wait with `except Exception: pass`
ExpectPlayG3_silent ==
    /\ pc = "wait2"
    /\ \E ok \in BOOLEAN :
         outcome' = Set("wait2", IF ok THEN "ok" ELSE "fail")
    /\ pc' = "makedirs"
    /\ UNCHANGED <<i, attempts, fails, waits, loads, out, exc, browser,
                   closedBy, driver, exitCode, fs, fs0, run>>

\* 5. try: expect(page.get_by_text("Play G3")).to_be_visible(timeout=10000)
\*    except Exception as e: print(f"Error waiting for Play G3: {e}")
ExpectPlayG3 ==
    /\ pc = "wait2"
    /\ \E ok \in BOOLEAN :
         /\ outcome' = Set("wait2", IF ok THEN "ok" ELSE "fail")
         /\ out' = IF ok THEN out ELSE Append(out, "error")
    /\ pc' = "makedirs"
    /\ UNCHANGED <<i, attempts, fails, waits, loads, exc, browser, closedBy,
                   driver, exitCode, fs, fs0, run>>

\* 6. os.makedirs("verification", exist_ok=True)
MakeDirs ==
    /\ pc = "makedirs"
    /\ LET r == os_makedirs(fs) IN
         /\ fs' = r.fs
         /\ IF r.ok
            THEN /\ outcome' = Set("makedirs", "ok")
                 /\ pc' = "screenshot"
                 /\ exc' = exc
            ELSE /\ outcome' = Set("makedirs", "fail")
                 /\ pc' = "finally"
                 /\ exc' = [kind |-> "makedirs", attempt |-> 0]
    /\ UNCHANGED <<i, attempts, fails, waits, loads, out, browser, closedBy,
                   driver, exitCode, fs0, run>>

\* page.screenshot(path="verification/practice_debug.png")
Screenshot ==
    /\ pc = "screenshot"
    /\ LET r == page_screenshot(fs, run) IN
         /\ fs' = r.fs
         /\ IF r.ok
            THEN /\ outcome' = Set("screenshot", "ok")
                 /\ pc' = "report"
                 /\ exc' = exc
            ELSE /\ outcome' = Set("screenshot", "fail")
                 /\ pc' = "finally"
                 /\ exc' = [kind |-> "screenshot", attempt |-> 0]
    /\ UNCHANGED <<i, attempts, fails, waits, loads, out, browser, closedBy,
                   driver, exitCode, fs0, run>>

\* print("Saved verification/practice_debug.png"); the function returns and
\* the try block ends
PrintSaved ==
    /\ pc = "report"
    /\ out' = Append(out, "saved")
    /\ outcome' = Set("report", "ok")
    /\ pc' = "finally"
    /\ UNCHANGED <<i, attempts, fails, waits, loads, exc, browser, closedBy,
                   driver, exitCode, fs, fs0, run>>

\* browser.close() placed after the try block instead of in `finally`
BrowserClose_no_finally ==
    /\ pc = "finally"
    /\ IF exc = NoExc
       THEN /\ browser' = "closed"
            /\ closedBy' = "close"
            /\ outcome' = Set("close", "ok")
       ELSE UNCHANGED <<browser, closedBy, outcome>>
    /\ pc' = "with_exit"
    /\ UNCHANGED <<i, attempts, fails, waits, loads, out, exc, driver,
                   exitCode, fs, fs0, run>>

\* a handler that swallows the exception: `except: pass` before the close
BrowserClose_swallow ==
    /\ pc = "finally"
    /\ browser' = "closed"
    /\ closedBy' = "close"
    /\ outcome' = Set("close", "ok")
    /\ exc' = NoExc
    /\ pc' = "with_exit"
    /\ UNCHANGED <<i, attempts, fails, waits, loads, out, driver, exitCode,
                   fs, fs0, run>>

\* finally: browser.close(); an exception in flight keeps propagating
BrowserClose ==
    /\ pc = "finally"
    /\ browser' = "closed"
    /\ closedBy' = "close"
    /\ outcome' = Set("close", "ok")
    /\ pc' = "with_exit"
    /\ UNCHANGED <<i, attempts, fails, waits, loads, out, exc, driver,
                   exitCode, fs, fs0, run>>

\* Leaving `with sync_playwright() as p`: the driver is stopped, which takes
\* down a browser that is still open; then the process ends, with a non-zero
\* exit code when an exception is propagating.
PlaywrightExit ==
    /\ pc = "with_exit"
    /\ driver' = "stopped"
    /\ browser' = IF browser = "open" THEN "closed" ELSE browser
    /\ closedBy' = IF browser = "open" THEN "driver" ELSE closedBy
    /\ exitCode' = IF exc = NoExc THEN 0 ELSE 1
    /\ pc' = "done"
    /\ UNCHANGED <<i, attempts, fails, waits, loads, outcome, out, exc, fs,
                   fs0, run>>

\* The script is executed again: a new process, the same disk.
RunAgain ==
    /\ pc = "done"
    /\ run < MaxRuns
    /\ run' = run + 1
    /\ fs0' = fs
    /\ pc' = "launch"
    /\ i' = 0
    /\ attempts' = 0
    /\ fails' = 0
    /\ waits' = 0
    /\ loads' = 0
    /\ outcome' = [s \in Steps |-> "none"]
    /\ out' = <<>>
    /\ exc' = NoExc
    /\ browser' = "none"
    /\ closedBy' = "none"
    /\ driver' = "running"
    /\ exitCode' = -1
    /\ fs' = fs

Next ==
    \/ Launch
    \/ NewContext
    \/ NewPage
    \/ ConnectAttempt
    \/ Goto
    \/ ClickPracticeTab
    \/ ExpectOpenGString
    \/ ClickStartPractice
    \/ ExpectPlayG3
    \/ MakeDirs
    \/ Screenshot
    \/ PrintSaved
    \/ BrowserClose
    \/ PlaywrightExit
    \/ RunAgain

Spec == Init /\ [][Next]_vars

TypeOK ==
    /\ pc \in {"launch", "new_context", "new_page", "connect", "navigate",
               "tab", "wait1", "click", "wait2", "makedirs", "screenshot",
               "report", "finally", "with_exit", "done"}
    /\ i \in 0..(max_retries - 1)
    /\ attempts \in 0..max_retries
    /\ exitCode \in {-1, 0, 1}
    /\ run \in 1..MaxRuns

----------------------------------------------------------------------------
Done == pc = "done"

Connected == outcome["connect"] = "ok"

\* this run wrote the screenshot file
ShotWritten == fs.png = "file" /\ fs.writer = run

\* the steps of verify_practice_mode that follow step s
After(s) ==
    CASE s = "connect"  -> {"navigate", "tab", "wait1", "click", "wait2",
                            "makedirs", "screenshot", "report"}
      [] s = "navigate" -> {"tab", "wait1", "click", "wait2", "makedirs",
                            "screenshot", "report"}
      [] s = "tab"      -> {"wait1", "click", "wait2", "makedirs",
                            "screenshot", "report"}
      [] s = "wait1"    -> {"click", "wait2", "makedirs", "screenshot",
                            "report"}
      [] s = "click"    -> {"wait2", "makedirs", "screenshot", "report"}
      [] OTHER          -> {}

NoneRan(S) == \A s \in S : outcome[s] = "none"

CaptureDidNotRaise ==
    outcome["makedirs"] # "fail" /\ outcome["screenshot"] # "fail"

\* C1 (as stated): in every finished run whose initial connection succeeded,
\* the screenshot has been written, whatever the interaction steps did.
C1_AsStated == Done /\ Connected => ShotWritten

\* C1 (amended): in every finished run in which the connection, navigate,
\* the Practice tab click, the wait for "Open G String" and the Start
\* Practice click succeeded and neither makedirs nor screenshot raised, the
\* screenshot has been written, whether the wait for "Play G3" succeeded or
\* failed.
C1_ScreenshotWhenStepsSucceed ==
    ( /\ Done
      /\ Connected
      /\ \A s \in {"navigate", "tab", "wait1", "click"} : outcome[s] = "ok"
      /\ CaptureDidNotRaise )
    => ShotWritten

C1_Witness ==
    /\ Done
    /\ Connected
    /\ outcome["wait2"] = "fail"
    /\ fs0.png = "absent"
    /\ ShotWritten

\* the steps after the connection whose exception is not handled
FatalSteps == {"navigate", "tab", "wait1", "click", "makedirs", "screenshot"}

\* C2 (as stated): every finished run in which some connection attempt
\* succeeded ends with exit code 0.
C2_AsStated == Done /\ Connected => exitCode = 0

\* C2 (amended): a finished run whose retries were exhausted ends with a
\* non-zero exit code, and a finished run in which some connection attempt
\* succeeded ends with exit code 0 exactly when none of navigate, tab click,
\* wait for "Open G String", Start Practice click, makedirs and screenshot
\* raised; a failed wait for "Play G3" never makes the exit code non-zero.
C2_ExitCode ==
    Done =>
      /\ outcome["connect"] = "fail" => exitCode = 1
      /\ Connected =>
           (exitCode = 0 <=> \A s \in FatalSteps : outcome[s] # "fail")

C2_Witness ==
    /\ Done
    /\ Connected
    /\ fails > 0
    /\ outcome["wait2"] = "fail"
    /\ exitCode = 0

\* C3: a connection error propagates only after max_retries failures; when
\* attempt N = fails + 1 <= max_retries succeeds after N - 1 failures the
\* loop is left with no exception in flight from it and the run is in
\* verify_practice_mode (at its first step or past it).
C3_RetryThenProceed ==
    /\ exc.kind = "connect" => fails = max_retries
    /\ Connected =>
         /\ attempts = fails + 1
         /\ attempts <= max_retries
         /\ exc.kind # "connect"
         /\ pc = "navigate" \/ outcome["navigate"] # "none"

C3_Witness ==
    /\ Connected
    /\ attempts = max_retries
    /\ fails = max_retries - 1
    /\ outcome["navigate"] = "ok"

\* C4: when all max_retries attempts have failed, the error in flight is
\* that of the last attempt, no step of verify_practice_mode runs, the disk
\* is as the run found it, and the run ends with a non-zero exit code.
C4_RetriesExhausted ==
    fails = max_retries =>
      /\ exc = [kind |-> "connect", attempt |-> max_retries]
      /\ pc \in {"finally", "with_exit", "done"}
      /\ NoneRan(After("connect"))
      /\ fs = fs0
      /\ out = <<>>
      /\ Done => exitCode = 1

C4_Witness ==
    /\ Done
    /\ fails = max_retries
    /\ attempts = max_retries
    /\ exitCode = 1

\* what the run has printed when it ends after a completed capture
ExpectedOutput ==
    IF outcome["wait2"] = "fail" THEN <<"error", "saved">> ELSE <<"saved">>

\* C5 (as stated): every finished run in which the Start Practice click
\* succeeded completed normally, wrote the screenshot and printed the save
\* confirmation, preceded by the caught-error message exactly when the wait
\* for "Play G3" failed.
C5_AsStated ==
    Done /\ outcome["click"] = "ok" =>
      /\ exitCode = 0
      /\ ShotWritten
      /\ out = ExpectedOutput

\* C5 (amended): the same, for the runs in which neither makedirs nor
\* screenshot raised.
C5_DegradedPathCompletes ==
    Done /\ outcome["click"] = "ok" /\ CaptureDidNotRaise =>
      /\ exitCode = 0
      /\ ShotWritten
      /\ out = ExpectedOutput

C5_Witness ==
    /\ Done
    /\ outcome["wait2"] = "fail"
    /\ out = <<"error", "saved">>
    /\ exitCode = 0
    /\ ShotWritten

\* C6: once the try block has been entered and left, browser.close() has
\* been called, on the normal path and on every exception path; and every
\* finished run that launched a browser ends with the browser closed.
C6_BrowserReleased ==
    /\ pc \in {"with_exit", "done"} /\ outcome["new_page"] = "ok" =>
         /\ browser = "closed"
         /\ closedBy = "close"
         /\ outcome["close"] = "ok"
    /\ Done /\ outcome["launch"] = "ok" => browser = "closed"

C6_Witness ==
    /\ Done
    /\ exc.kind = "tab"
    /\ browser = "closed"
    /\ closedBy = "close"

\* C7: when the Practice tab click, the wait for "Open G String" or the
\* Start Practice click raises, that exception is the one propagated, no
\* later step runs, nothing is printed, the disk stays as the run found it
\* (no screenshot, also not during teardown), and the run ends with a
\* non-zero exit code after browser.close().
C7_FailFast ==
    \A s \in {"tab", "wait1", "click"} :
      outcome[s] = "fail" =>
        /\ exc = [kind |-> s, attempt |-> 0]
        /\ pc \in {"finally", "with_exit", "done"}
        /\ NoneRan(After(s))
        /\ out = <<>>
        /\ fs = fs0
        /\ Done => exitCode = 1 /\ closedBy = "close"

C7_Witness ==
    /\ Done
    /\ outcome["wait1"] = "fail"
    /\ exitCode = 1
    /\ closedBy = "close"

\* the initial disk states the claim ranges over: directory absent or
\* present, screenshot file absent or present
ClaimFs(f) == f.dir \in {"absent", "dir"} /\ f.png \in {"absent", "file"}

\* C8: from every such disk state neither makedirs nor screenshot raises;
\* after makedirs the directory exists, after screenshot the file exists and
\* is the one this run wrote, and the run then ends with exit code 0; a run
\* that wrote the screenshot leaves the disk in such a state, so the next
\* run's capture succeeds too.
C8_CaptureIndependentOfDisk ==
    /\ ClaimFs(fs0) =>
         /\ CaptureDidNotRaise
         /\ outcome["makedirs"] = "ok" => fs.dir = "dir"
         /\ outcome["screenshot"] = "ok" =>
              fs.dir = "dir" /\ fs.png = "file" /\ fs.writer = run
         /\ Done /\ outcome["makedirs"] = "ok" => exitCode = 0
    /\ fs0.writer >= 1 => ClaimFs(fs0)

C8_Witness ==
    /\ Done
    /\ run = 2
    /\ fs0.png = "file"
    /\ fs0.writer = 1
    /\ fs.writer = 2
    /\ exitCode = 0

\* C9: the loop makes at most max_retries attempts; while it runs every
\* attempt so far failed and was followed by one wait; k failures and a
\* success give k + 1 attempts and k waits, with no attempt after the
\* success; max_retries failures give max_retries attempts and
\* max_retries - 1 waits.
C9_AttemptsAndWaits ==
    /\ attempts <= max_retries
    /\ pc = "connect" =>
         attempts = fails /\ waits = fails /\ i = fails /\ fails < max_retries
    /\ Connected =>
         attempts = fails + 1 /\ waits = fails /\ fails <= max_retries - 1
    /\ outcome["connect"] = "fail" =>
         /\ attempts = max_retries
         /\ fails = max_retries
         /\ waits = max_retries - 1

C9_Witness ==
    /\ outcome["connect"] = "fail"
    /\ attempts = max_retries
    /\ waits = max_retries - 1

\* C10: whenever the run is at or past the Practice tab click the URL has
\* been loaded successfully twice, once by the loop and once by Navigate;
\* when the Navigate load raises after a successful connection the loop
\* makes no further attempt, that exception is the one propagated, no later
\* step runs, the disk stays as the run found it and the exit code is
\* non-zero.
C10_SecondLoadOutsideRetry ==
    /\ pc = "tab" \/ outcome["tab"] # "none" => loads = 2
    /\ outcome["navigate"] = "fail" =>
         /\ Connected
         /\ loads = 1
         /\ attempts = fails + 1
         /\ exc = [kind |-> "navigate", attempt |-> 0]
         /\ pc \in {"finally", "with_exit", "done"}
         /\ NoneRan(After("navigate"))
         /\ fs = fs0
         /\ Done => exitCode = 1

C10_Witness ==
    /\ Done
    /\ outcome["navigate"] = "fail"
    /\ fails > 0
    /\ loads = 1
    /\ exitCode = 1
====
